---- MODULE Spec2Model ----
(***************************************************************************)
(* CIVOPS-Radar risk assessment engine (src/server/risk_engine.py).        *)
(*                                                                         *)
(* Strings are TLA+ strings; Python's str.upper / str.lower / `in` and the *)
(* regular expressions of suspicious_patterns are computed character by    *)
(* character.  Optional values are None == <<>> or Some(v) == <<v>>.       *)
(* The wall clock enters only through datetime.now().hour (now_hour).      *)
(***************************************************************************)
EXTENDS Integers, Sequences, FiniteSets, TLC

VARIABLES
    network,          \* NetworkProfile handed to calculate_risk_score
    historical_data,  \* None or Some(list of NetworkProfile)
    now_hour,         \* datetime.now().hour at evaluation time
    pc,               \* position of the caller: "idle", "scored", "reported", "classified"
    total_score,      \* first component of calculate_risk_score's result
    factors,          \* second component: the RiskFactors
    report,           \* None or Some(dict built by generate_risk_report)
    probe,            \* <<a, b>>: two integer scores handed to get_risk_level / get_risk_color
    probe_level,      \* <<get_risk_level(a), get_risk_level(b)>> once classified
    probe_color,      \* <<get_risk_color(a), get_risk_color(b)>> once classified
    engine,           \* the attributes of the one RiskEngine instance the callers share
    shared_history,   \* the list object that concurrent callers hand over as history
    calls             \* per concurrent caller: arguments, position, locals and result

conc_vars == <<engine, shared_history, calls>>

vars == <<network, historical_data, now_hour, pc, total_score, factors, report,
          probe, probe_level, probe_color, engine, shared_history, calls>>

-----------------------------------------------------------------------------
(* Bounds of the model *)

\* longest history list enumerated
MaxHist == 4
\* scores probed range over -ProbeMargin .. 100 + ProbeMargin
ProbeMargin == 5
\* callers running calculate_risk_score on the same engine at once
NumCallers == 2

-----------------------------------------------------------------------------
(* Python values and builtins *)

None == <<>>
Some(v) == <<v>>
IsNone(o) == o = None
Value(o) == o[1]

min(a, b) == IF a <= b THEN a ELSE b
max(a, b) == IF a >= b THEN a ELSE b

RECURSIVE sum(_)
sum(xs) == IF xs = <<>> THEN 0 ELSE Head(xs) + sum(Tail(xs))

LowerAlphabet == "abcdefghijklmnopqrstuvwxyz"
UpperAlphabet == "ABCDEFGHIJKLMNOPQRSTUVWXYZ"

\* the one-character string at position i of s
CharAt(s, i) == SubSeq(s, i, i)

\* c mapped from alphabet `from` to alphabet `to`, unchanged when not in `from`
MapChar(c, from, to) ==
    IF \E i \in 1..Len(from) : CharAt(from, i) = c
    THEN CharAt(to, CHOOSE i \in 1..Len(from) : CharAt(from, i) = c)
    ELSE c

RECURSIVE MapString(_, _, _, _)
MapString(s, i, from, to) ==
    IF i > Len(s) THEN ""
    ELSE MapChar(CharAt(s, i), from, to) \o MapString(s, i + 1, from, to)

\* str.upper() and str.lower()
upper(s) == MapString(s, 1, LowerAlphabet, UpperAlphabet)
lower(s) == MapString(s, 1, UpperAlphabet, LowerAlphabet)

\* Python's  sub in s  on strings
str_in(sub, s) ==
    \E i \in 1..(Len(s) - Len(sub) + 1) : SubSeq(s, i, i + Len(sub) - 1) = sub

\* re.search(pattern, s) for a pattern (?i)(w1|w2|...), given as <<w1, w2, ...>>
re_search(pattern, s) ==
    \E k \in 1..Len(pattern) : str_in(lower(pattern[k]), lower(s))

-----------------------------------------------------------------------------
(* RiskEngine.__init__ *)

suspicious_patterns ==
    << <<"free", "public", "guest", "open">>,
       <<"wifi", "internet", "hotspot">>,
       <<"admin", "root", "test", "demo">>,
       <<"hack", "crack", "pwn">>,
       <<"evil", "rogue", "fake">>,
       <<"airport", "hotel", "coffee">>,
       <<"mobile", "phone", "android">>,
       <<"backdoor", "trojan", "virus">> >>

risky_vendors ==
    <<"Cisco", "Linksys", "Netgear", "D-Link", "TP-Link",
      "Belkin", "ASUS", "Ubiquiti", "Mikrotik">>

encryption_strength ==
    ("WEP" :> 0) @@ ("WPA" :> 20) @@ ("WPA2" :> 40) @@ ("WPA3" :> 60)
    @@ ("WPA2-PSK" :> 30) @@ ("WPA3-SAE" :> 70)

\* the instance after __init__
RiskEngine ==
    [suspicious_patterns |-> suspicious_patterns,
     risky_vendors |-> risky_vendors,
     encryption_strength |-> encryption_strength]

\* x in xs  on a list
list_in(x, xs) == \E i \in 1..Len(xs) : xs[i] = x

-----------------------------------------------------------------------------
(* The network names and capability strings the callers hand over *)

SSIDs == {"", "HomeNetwork", "FreeWiFi", "Free Airport WiFi - no Hack"}
Capabilities ==
    {"[ESS]", "[WEP][ESS]", "[WPA-PSK-TKIP][ESS]", "[WPA2-PSK-CCMP][ESS]",
     "[WPA3-SAE-CCMP][ESS]", "[WPA2-PSK-CCMP][WPA3-SAE-CCMP][ESS]",
     "[wep][wpa3-sae-ccmp][ess]"}

-----------------------------------------------------------------------------
(* Data classes *)

NetworkProfile(bssid, ssid, capabilities, frequency, level, is_hidden, is_open, vendor) ==
    [bssid |-> bssid, ssid |-> ssid, capabilities |-> capabilities,
     frequency |-> frequency, level |-> level, is_hidden |-> is_hidden,
     is_open |-> is_open, vendor |-> vendor]

RiskFactors ==
    [open_network |-> 0, hidden_ssid |-> 0, weak_encryption |-> 0,
     suspicious_ssid |-> 0, signal_fluctuation |-> 0, proximity_risk |-> 0,
     vendor_risk |-> 0, beacon_anomaly |-> 0, channel_conflict |-> 0,
     temporal_risk |-> 0]

-----------------------------------------------------------------------------
(* Factor evaluators *)

_assess_open_network(n) == IF n.is_open THEN 30 ELSE 0

_assess_hidden_ssid(n) == IF n.is_hidden THEN 20 ELSE 0

\* encryption_risk with the capabilities compared as given, not upper-cased
encryption_risk_case_sensitive ==
    [c \in Capabilities |->
        IF str_in("WEP", c) THEN 25
        ELSE IF str_in("WPA", c) /\ ~str_in("WPA2", c) THEN 15
        ELSE IF str_in("WPA2", c) /\ ~str_in("WPA3", c) THEN 5
        ELSE IF str_in("WPA3", c) THEN 0
        ELSE 20]

\* the branch taken on a capabilities string once the profile is not open,
\* tabulated over the capability strings handed over
encryption_risk ==
    [c \in Capabilities |->
        LET capabilities == upper(c) IN
        IF str_in("WEP", capabilities) THEN 25
        ELSE IF str_in("WPA", capabilities) /\ ~str_in("WPA2", capabilities) THEN 15
        ELSE IF str_in("WPA2", capabilities) /\ ~str_in("WPA3", capabilities) THEN 5
        ELSE IF str_in("WPA3", capabilities) THEN 0
        ELSE 20]

\* _assess_encryption_strength without the early return for open networks
_assess_encryption_strength_unguarded(n) == encryption_risk[n.capabilities]

_assess_encryption_strength(n) ==
    IF n.is_open THEN 0 ELSE encryption_risk[n.capabilities]

\* risk_score after the loop has visited patterns i .. len(patterns)
RECURSIVE pattern_loop(_, _, _, _)
pattern_loop(patterns, i, ssid, risk_score) ==
    IF i > Len(patterns) THEN risk_score
    ELSE pattern_loop(patterns, i + 1, ssid,
                      IF re_search(patterns[i], ssid) THEN risk_score + 10
                      ELSE risk_score)

\* suspicious_score without the cap at 30
suspicious_score_uncapped ==
    [name \in SSIDs |->
        IF name = "" THEN 0
        ELSE pattern_loop(suspicious_patterns, 1, lower(name), 0)]

\* suspicious_score with the loop left at the first matching pattern
suspicious_score_first_match ==
    [name \in SSIDs |->
        IF name = "" THEN 0
        ELSE IF \E i \in 1..Len(suspicious_patterns) :
                    re_search(suspicious_patterns[i], lower(name))
             THEN 10 ELSE 0]

\* the score of a network name, tabulated over the names handed over
suspicious_score ==
    [name \in SSIDs |->
        IF name = "" THEN 0
        ELSE min(30, pattern_loop(suspicious_patterns, 1, lower(name), 0))]

_assess_suspicious_ssid(n) == suspicious_score[n.ssid]

\* [n.level for n in historical_data if n.bssid == bssid]
RECURSIVE signal_levels(_, _)
signal_levels(hist, bssid) ==
    IF hist = <<>> THEN <<>>
    ELSE IF Head(hist).bssid = bssid
         THEN <<Head(hist).level>> \o signal_levels(Tail(hist), bssid)
         ELSE signal_levels(Tail(hist), bssid)

\* len(levels)^3 * variance, exactly: with mean = S/n,
\* sum((x - mean)^2)/n = sum((n*x - S)^2) / n^3
RECURSIVE scaled_sq_dev(_, _, _)
scaled_sq_dev(levels, n, S) ==
    IF levels = <<>> THEN 0
    ELSE (n * Head(levels) - S) * (n * Head(levels) - S)
         + scaled_sq_dev(Tail(levels), n, S)

\* std_dev_gt with the squared deviations summed but not divided by len(levels)
std_dev_gt_undivided(levels, t) ==
    LET n == Len(levels) IN
    scaled_sq_dev(levels, n, sum(levels)) > t * t * n * n

\* std_dev > t, for t >= 0, is variance > t*t, is n^3*variance > t*t*n^3
std_dev_gt(levels, t) ==
    LET n == Len(levels) IN
    scaled_sq_dev(levels, n, sum(levels)) > t * t * n * n * n

\* _assess_signal_fluctuation over every entry, whatever its bssid
_assess_signal_fluctuation_unfiltered(n, hist) ==
    IF Len(hist) < 3 THEN 0
    ELSE LET levels == [i \in 1..Len(hist) |-> hist[i].level] IN
         IF std_dev_gt(levels, 15) THEN 15
         ELSE IF std_dev_gt(levels, 10) THEN 8
         ELSE 0

_assess_signal_fluctuation(n, hist) ==
    IF Len(hist) < 3 THEN 0
    ELSE LET levels == signal_levels(hist, n.bssid) IN
         IF Len(levels) < 3 THEN 0
         ELSE IF std_dev_gt(levels, 15) THEN 15
         ELSE IF std_dev_gt(levels, 10) THEN 8
         ELSE 0

_assess_proximity_risk(n) ==
    (IF n.level > -30 THEN 10 ELSE IF n.level > -50 THEN 5 ELSE 0)
    + (IF n.level < -80 THEN 5 ELSE 0)

_assess_vendor_risk(n) ==
    IF IsNone(n.vendor) \/ Value(n.vendor) = "" THEN 0
    ELSE IF list_in(Value(n.vendor), risky_vendors) THEN 5
    ELSE 0

standard_frequencies ==
    <<2412, 2417, 2422, 2427, 2432, 2437, 2442, 2447, 2452, 2457, 2462, 2467, 2472, 2484>>

_assess_beacon_anomalies(n) ==
    (IF ~list_in(n.frequency, standard_frequencies) THEN 10 ELSE 0)
    + (IF n.frequency < 2400 \/ n.frequency > 2500 THEN 15 ELSE 0)

_assess_channel_conflicts(n) == 0

\* _assess_temporal_patterns with the upper end of the hours excluded
_assess_temporal_patterns_exclusive(n, hist, hour) ==
    IF hist = <<>> THEN 0
    ELSE IF 2 <= hour /\ hour < 6 THEN 5
    ELSE 0

\* hist is the list itself; hour is datetime.now().hour
_assess_temporal_patterns(n, hist, hour) ==
    IF hist = <<>> THEN 0
    ELSE IF 2 <= hour /\ hour <= 6 THEN 5
    ELSE 0

\* Python truthiness of the historical_data argument: None and [] are falsy
truthy(hd) == ~IsNone(hd) /\ Value(hd) # <<>>

-----------------------------------------------------------------------------
(* calculate_risk_score *)

assess_factors(n, hd, hour) ==
    [open_network       |-> _assess_open_network(n),
     hidden_ssid        |-> _assess_hidden_ssid(n),
     weak_encryption    |-> _assess_encryption_strength(n),
     suspicious_ssid    |-> _assess_suspicious_ssid(n),
     signal_fluctuation |-> IF truthy(hd) THEN _assess_signal_fluctuation(n, Value(hd))
                            ELSE RiskFactors.signal_fluctuation,
     proximity_risk     |-> _assess_proximity_risk(n),
     vendor_risk        |-> _assess_vendor_risk(n),
     beacon_anomaly     |-> _assess_beacon_anomalies(n),
     channel_conflict   |-> _assess_channel_conflicts(n),
     temporal_risk      |-> IF truthy(hd) THEN _assess_temporal_patterns(n, Value(hd), hour)
                            ELSE RiskFactors.temporal_risk]

\* aggregate without the clamp
aggregate_unclamped(f) ==
    sum(<<f.open_network, f.hidden_ssid, f.weak_encryption,
          f.suspicious_ssid, f.signal_fluctuation, f.proximity_risk,
          f.vendor_risk, f.beacon_anomaly, f.channel_conflict,
          f.temporal_risk>>)

aggregate(f) ==
    min(100, max(0, sum(<<f.open_network, f.hidden_ssid, f.weak_encryption,
                          f.suspicious_ssid, f.signal_fluctuation, f.proximity_risk,
                          f.vendor_risk, f.beacon_anomaly, f.channel_conflict,
                          f.temporal_risk>>)))

calculate_risk_score(n, hd, hour) ==
    LET f == assess_factors(n, hd, hour) IN <<aggregate(f), f>>

-----------------------------------------------------------------------------
(* Classification and report *)

\* get_risk_level with the thresholds exclusive
get_risk_level_exclusive(score) ==
    IF score > 70 THEN "CRITICAL"
    ELSE IF score > 50 THEN "HIGH"
    ELSE IF score > 30 THEN "MEDIUM"
    ELSE IF score > 10 THEN "LOW"
    ELSE "MINIMAL"

get_risk_level(score) ==
    IF score >= 70 THEN "CRITICAL"
    ELSE IF score >= 50 THEN "HIGH"
    ELSE IF score >= 30 THEN "MEDIUM"
    ELSE IF score >= 10 THEN "LOW"
    ELSE "MINIMAL"

\* get_risk_color with the orange band starting at 60
get_risk_color_shifted(score) ==
    IF score >= 70 THEN "#ef4444"
    ELSE IF score >= 60 THEN "#f59e0b"
    ELSE IF score >= 30 THEN "#eab308"
    ELSE IF score >= 10 THEN "#10b981"
    ELSE "#6b7280"

get_risk_color(score) ==
    IF score >= 70 THEN "#ef4444"
    ELSE IF score >= 50 THEN "#f59e0b"
    ELSE IF score >= 30 THEN "#eab308"
    ELSE IF score >= 10 THEN "#10b981"
    ELSE "#6b7280"

\* _generate_recommendations with the proximity and vendor checks exchanged
_generate_recommendations_swapped(f) ==
    (IF f.open_network > 0 THEN <<"Avoid connecting to open networks">> ELSE <<>>)
    \o (IF f.hidden_ssid > 0 THEN <<"Be cautious of hidden networks">> ELSE <<>>)
    \o (IF f.weak_encryption > 0 THEN <<"Network uses weak encryption">> ELSE <<>>)
    \o (IF f.suspicious_ssid > 0 THEN <<"SSID appears suspicious">> ELSE <<>>)
    \o (IF f.signal_fluctuation > 0 THEN <<"Signal strength is unstable">> ELSE <<>>)
    \o (IF f.vendor_risk > 0 THEN <<"Vendor has known security issues">> ELSE <<>>)
    \o (IF f.proximity_risk > 0 THEN <<"Network is very close or very far">> ELSE <<>>)
    \o (IF f.beacon_anomaly > 0 THEN <<"Network uses unusual frequencies">> ELSE <<>>)
    \o (IF f.temporal_risk > 0 THEN <<"Network active during unusual hours">> ELSE <<>>)

_generate_recommendations(f) ==
    (IF f.open_network > 0 THEN <<"Avoid connecting to open networks">> ELSE <<>>)
    \o (IF f.hidden_ssid > 0 THEN <<"Be cautious of hidden networks">> ELSE <<>>)
    \o (IF f.weak_encryption > 0 THEN <<"Network uses weak encryption">> ELSE <<>>)
    \o (IF f.suspicious_ssid > 0 THEN <<"SSID appears suspicious">> ELSE <<>>)
    \o (IF f.signal_fluctuation > 0 THEN <<"Signal strength is unstable">> ELSE <<>>)
    \o (IF f.proximity_risk > 0 THEN <<"Network is very close or very far">> ELSE <<>>)
    \o (IF f.vendor_risk > 0 THEN <<"Vendor has known security issues">> ELSE <<>>)
    \o (IF f.beacon_anomaly > 0 THEN <<"Network uses unusual frequencies">> ELSE <<>>)
    \o (IF f.temporal_risk > 0 THEN <<"Network active during unusual hours">> ELSE <<>>)

\* the timestamp is kept to the hour of the wall clock
generate_risk_report(n, risk_score, f, hour) ==
    [bssid |-> n.bssid,
     ssid |-> n.ssid,
     risk_score |-> risk_score,
     risk_level |-> get_risk_level(risk_score),
     risk_color |-> get_risk_color(risk_score),
     factors |-> f,
     recommendations |-> _generate_recommendations(f),
     timestamp |-> hour]

-----------------------------------------------------------------------------
(* Inputs *)

\* the three profiles of the module's self-test
test_networks ==
    << NetworkProfile("00:11:22:33:44:55", "HomeNetwork", "[WPA2-PSK-CCMP][ESS]",
                      2412, -45, FALSE, FALSE, None),
       NetworkProfile("00:11:22:33:44:56", "FreeWiFi", "[ESS]",
                      2437, -60, FALSE, TRUE, None),
       NetworkProfile("00:11:22:33:44:57", "", "[WPA2-PSK-CCMP][ESS]",
                      2462, -70, TRUE, FALSE, None) >>

TestNetworks == {test_networks[i] : i \in 1..Len(test_networks)}

BSSIDs == {"00:11:22:33:44:56", "00:11:22:33:44:57"}
Frequencies == {2437, 2450, 5180}
Levels == {-20, -30, -60, -90}
Vendors == {None, Some("Cisco"), Some("Acme")}
Hours == {1, 2, 6, 7}
HistLevels == {-90, -60, -30}

Networks ==
    {NetworkProfile(b, s, c, f, l, h, o, v) :
        b \in BSSIDs, s \in SSIDs, c \in Capabilities, f \in Frequencies,
        l \in Levels, h \in BOOLEAN, o \in BOOLEAN, v \in Vendors}

\* an earlier observation of access point b at signal level l
HistoryEntry(b, l) ==
    NetworkProfile(b, "HomeNetwork", "[WPA2-PSK-CCMP][ESS]", 2412, l, FALSE, FALSE, None)

HistoryEntries == {HistoryEntry(b, l) : b \in BSSIDs, l \in HistLevels}

\* lists of at most k history entries
Lists(k) == UNION {[1..m -> HistoryEntries] : m \in 0..k}

\* histories handed over with the full range of profiles: none, empty, one entry
ShortHistories ==
    {None, Some(<<>>)} \cup {Some(<<HistoryEntry(b, -60)>>) : b \in BSSIDs}

\* histories handed over with the self-test profiles
Histories == {None} \cup {Some(h) : h \in Lists(MaxHist)}

Probes == (0 - ProbeMargin)..(100 + ProbeMargin)

-----------------------------------------------------------------------------
(* The caller of the self-test: score a profile, then report on it *)

Idle ==
    /\ pc = "idle"
    /\ total_score = 0
    /\ factors = RiskFactors
    /\ report = None
    /\ probe_level = None
    /\ probe_color = None

\* the engine constructed, no concurrent caller
NoCallers ==
    /\ engine = RiskEngine
    /\ shared_history = <<>>
    /\ calls = <<>>

Init ==
    /\ Idle
    /\ NoCallers
    /\ now_hour \in Hours
    /\ probe = <<0, 0>>
    /\ \/ network \in Networks /\ historical_data \in ShortHistories
       \/ network \in TestNetworks /\ historical_data \in Histories

Score ==
    /\ pc = "idle"
    /\ LET r == calculate_risk_score(network, historical_data, now_hour) IN
         /\ total_score' = r[1]
         /\ factors' = r[2]
    /\ pc' = "scored"
    /\ UNCHANGED <<network, historical_data, now_hour, report,
                   probe, probe_level, probe_color, conc_vars>>

Report ==
    /\ pc = "scored"
    /\ report' = Some(generate_risk_report(network, total_score, factors, now_hour))
    /\ pc' = "reported"
    /\ UNCHANGED <<network, historical_data, now_hour, total_score, factors,
                   probe, probe_level, probe_color, conc_vars>>

Next == Score \/ Report

Spec == Init /\ [][Next]_vars

-----------------------------------------------------------------------------
(* Classification of arbitrary integer scores *)

InitClassify ==
    /\ Idle
    /\ NoCallers
    /\ network = test_networks[1]
    /\ historical_data = None
    /\ now_hour \in Hours
    /\ probe \in Probes \X Probes

Classify ==
    /\ pc = "idle"
    /\ probe_level' = Some(<<get_risk_level(probe[1]), get_risk_level(probe[2])>>)
    /\ probe_color' = Some(<<get_risk_color(probe[1]), get_risk_color(probe[2])>>)
    /\ pc' = "classified"
    /\ UNCHANGED <<network, historical_data, now_hour, total_score, factors,
                   report, probe, conc_vars>>

\* a report on the first score probed, with an empty breakdown
ReportScore ==
    /\ pc = "classified"
    /\ report' = Some(generate_risk_report(network, probe[1], RiskFactors, now_hour))
    /\ pc' = "reported"
    /\ UNCHANGED <<network, historical_data, now_hour, total_score, factors,
                   probe, probe_level, probe_color, conc_vars>>

NextClassify == Classify \/ ReportScore

SpecClassify == InitClassify /\ [][NextClassify]_vars

-----------------------------------------------------------------------------
(* Several callers inside calculate_risk_score on one engine, statement by  *)
(* statement.  factors and total_score are locals of each call; the engine  *)
(* and the history list are objects every caller can reach.                 *)

Callers == 1..NumCallers

\* the profiles the concurrent callers score
ConcNetworks ==
    {NetworkProfile("00:11:22:33:44:56", "FreeWiFi", "[ESS]",
                    2437, -60, FALSE, TRUE, Some("Cisco")),
     test_networks[3]}

\* the history list the concurrent callers share
conc_history ==
    <<HistoryEntry("00:11:22:33:44:56", -90), HistoryEntry("00:11:22:33:44:57", -60),
      HistoryEntry("00:11:22:33:44:56", -60), HistoryEntry("00:11:22:33:44:57", -60),
      HistoryEntry("00:11:22:33:44:56", -30), HistoryEntry("00:11:22:33:44:57", -30)>>

\* the historical_data argument of a call: None or a reference to the shared list
HistoryArgs == {None, Some("shared_history")}

\* the value of a historical_data argument
deref(hd) == IF IsNone(hd) THEN None ELSE Some(shared_history)

\* _assess_suspicious_ssid reading self.suspicious_patterns of instance e
\* (the tabulated score when the patterns are those of __init__)
self_assess_suspicious_ssid(e, n) ==
    IF e.suspicious_patterns = suspicious_patterns THEN _assess_suspicious_ssid(n)
    ELSE IF n.ssid = "" THEN 0
    ELSE min(30, pattern_loop(e.suspicious_patterns, 1, lower(n.ssid), 0))

\* _assess_vendor_risk reading self.risky_vendors of instance e
self_assess_vendor_risk(e, n) ==
    IF IsNone(n.vendor) \/ Value(n.vendor) = "" THEN 0
    ELSE IF list_in(Value(n.vendor), e.risky_vendors) THEN 5
    ELSE 0

InitConc ==
    /\ Idle
    /\ network = test_networks[1]
    /\ historical_data = None
    /\ now_hour \in Hours
    /\ probe = <<0, 0>>
    /\ engine = RiskEngine
    /\ shared_history = conc_history
    /\ calls \in [Callers -> [network : ConcNetworks, historical_data : HistoryArgs,
                              pc : {"l87"}, factors : {None}, total_score : {None},
                              result : {None}]]

\* caller c moves from statement `at` to statement `next`, setting one sub-score
SetFactor(c, at, field, value, next) ==
    /\ calls[c].pc = at
    /\ calls' = [calls EXCEPT ![c].factors[field] = value, ![c].pc = next]
    /\ UNCHANGED <<network, historical_data, now_hour, pc, total_score, factors,
                   report, probe, probe_level, probe_color, engine, shared_history>>

\* caller c moves on or sets a local other than a sub-score
SetCall(c, at, call) ==
    /\ calls[c].pc = at
    /\ calls' = [calls EXCEPT ![c] = call]
    /\ UNCHANGED <<network, historical_data, now_hour, pc, total_score, factors,
                   report, probe, probe_level, probe_color, engine, shared_history>>

NewFactors(c) ==
    SetCall(c, "l87", [calls[c] EXCEPT !.factors = RiskFactors, !.pc = "l90"])

AssessOpen(c) ==
    SetFactor(c, "l90", "open_network", _assess_open_network(calls[c].network), "l91")

AssessHidden(c) ==
    SetFactor(c, "l91", "hidden_ssid", _assess_hidden_ssid(calls[c].network), "l92")

AssessEncryption(c) ==
    SetFactor(c, "l92", "weak_encryption",
              _assess_encryption_strength(calls[c].network), "l93")

AssessSsid(c) ==
    SetFactor(c, "l93", "suspicious_ssid",
              self_assess_suspicious_ssid(engine, calls[c].network), "l96")

HistoryTest(c) ==
    SetCall(c, "l96",
            [calls[c] EXCEPT !.pc = IF truthy(deref(calls[c].historical_data))
                                    THEN "l97" ELSE "l100"])

\* the fluctuation statement with the matching entries filtered in place
AssessFluctuationInPlace(c) ==
    /\ calls[c].pc = "l97"
    /\ shared_history' =
           SelectSeq(shared_history, LAMBDA e : e.bssid = calls[c].network.bssid)
    /\ calls' = [calls EXCEPT
                   ![c].factors.signal_fluctuation =
                       _assess_signal_fluctuation(calls[c].network, shared_history),
                   ![c].pc = "l98"]
    /\ UNCHANGED <<network, historical_data, now_hour, pc, total_score, factors,
                   report, probe, probe_level, probe_color, engine>>

AssessFluctuation(c) ==
    SetFactor(c, "l97", "signal_fluctuation",
              _assess_signal_fluctuation(calls[c].network, shared_history), "l98")

AssessTemporal(c) ==
    SetFactor(c, "l98", "temporal_risk",
              _assess_temporal_patterns(calls[c].network, shared_history, now_hour),
              "l100")

AssessProximity(c) ==
    SetFactor(c, "l100", "proximity_risk", _assess_proximity_risk(calls[c].network), "l101")

AssessVendor(c) ==
    SetFactor(c, "l101", "vendor_risk",
              self_assess_vendor_risk(engine, calls[c].network), "l102")

AssessBeacon(c) ==
    SetFactor(c, "l102", "beacon_anomaly",
              _assess_beacon_anomalies(calls[c].network), "l103")

AssessChannel(c) ==
    SetFactor(c, "l103", "channel_conflict",
              _assess_channel_conflicts(calls[c].network), "l106")

Total(c) ==
    SetCall(c, "l106", [calls[c] EXCEPT !.total_score = aggregate(calls[c].factors),
                                        !.pc = "l119"])

Return(c) ==
    SetCall(c, "l119", [calls[c] EXCEPT !.result = Some(<<calls[c].total_score,
                                                         calls[c].factors>>),
                                        !.pc = "returned"])

NextConc ==
    \E c \in Callers :
        \/ NewFactors(c)
        \/ AssessOpen(c)
        \/ AssessHidden(c)
        \/ AssessEncryption(c)
        \/ AssessSsid(c)
        \/ HistoryTest(c)
        \/ AssessFluctuation(c)
        \/ AssessTemporal(c)
        \/ AssessProximity(c)
        \/ AssessVendor(c)
        \/ AssessBeacon(c)
        \/ AssessChannel(c)
        \/ Total(c)
        \/ Return(c)

SpecConc == InitConc /\ [][NextConc]_vars

-----------------------------------------------------------------------------
(* Properties *)

Scored == pc \in {"scored", "reported"}

\* the ten sub-scores of the breakdown, added field by field
FactorSum ==
    factors.open_network + factors.hidden_ssid + factors.weak_encryption
    + factors.suspicious_ssid + factors.signal_fluctuation + factors.proximity_risk
    + factors.vendor_risk + factors.beacon_anomaly + factors.channel_conflict
    + factors.temporal_risk

\* C1: the total score is the sum of the ten sub-scores of the returned
\* breakdown cut to 0..100 (100 when the sum is larger, never rescaled), so it
\* always lies in 0..100.
C1_TotalIsClampedSum ==
    Scored =>
        /\ total_score = (IF FactorSum > 100 THEN 100
                          ELSE IF FactorSum < 0 THEN 0 ELSE FactorSum)
        /\ 0 <= total_score /\ total_score <= 100

C1_Witness == pc = "scored" /\ FactorSum > 100 /\ total_score = 100

\* the encryption tokens each capabilities string holds, in any letter case
TokensOf ==
    [c \in Capabilities |->
        {t \in {"WEP", "WPA", "WPA2", "WPA3"} : str_in(t, upper(c))}]

\* the capabilities string holds the token in some letter case
HasToken(token) == token \in TokensOf[network.capabilities]

\* C2: a profile that is not open and whose capabilities hold "WPA3" in any
\* letter case has weak_encryption = 0, whatever other tokens are present.
C2_Wpa3IsZero ==
    (Scored /\ ~network.is_open /\ HasToken("WPA3")) => factors.weak_encryption = 0

\* C3 as stated: temporal_risk is 5 exactly when the hour of evaluation is in
\* 2..6, with or without a history.
C3_HourAlone ==
    Scored => factors.temporal_risk = (IF now_hour \in 2..6 THEN 5 ELSE 0)

\* the history argument is a non-empty list
HistoryGiven == historical_data # None /\ Len(historical_data[1]) > 0

\* C3: temporal_risk is 5 when a non-empty history is supplied and the hour of
\* evaluation is in 2..6, and 0 otherwise; nothing else of the observation or
\* of the history enters.
C3_HourAndHistoryGiven ==
    Scored => factors.temporal_risk = (IF HistoryGiven /\ now_hour \in 2..6 THEN 5 ELSE 0)

C3_Witness ==
    /\ pc = "scored" /\ HistoryGiven /\ now_hour = 6
    /\ factors.temporal_risk = 5

LevelRank(l) ==
    CASE l = "MINIMAL" -> 0
      [] l = "LOW" -> 1
      [] l = "MEDIUM" -> 2
      [] l = "HIGH" -> 3
      [] l = "CRITICAL" -> 4

\* the observation of the example, under any identifier, scored with no history
FreeWiFiCase ==
    /\ network.ssid = "FreeWiFi" /\ network.capabilities = "[ESS]"
    /\ network.frequency = 2437 /\ network.level = -60
    /\ ~network.is_hidden /\ network.is_open /\ network.vendor = None
    /\ historical_data = None

\* what the example states besides the suspicious-name score
FreeWiFiRest ==
    /\ factors.open_network = 30
    /\ factors.weak_encryption = 0
    /\ factors.proximity_risk = 0
    /\ factors.beacon_anomaly = 0
    /\ total_score >= 40
    /\ LevelRank(get_risk_level(total_score)) >= LevelRank("MEDIUM")

\* C4 as stated: the FreeWiFi example scores suspicious_ssid = 10.
C4_FreeWiFiTen ==
    (Scored /\ FreeWiFiCase) => (FreeWiFiRest /\ factors.suspicious_ssid = 10)

\* C4: the FreeWiFi example scores suspicious_ssid = 20 (the name matches the
\* "free" pattern and the "wifi" pattern), with the other stated values.
C4_FreeWiFiTwenty ==
    (Scored /\ FreeWiFiCase) => (FreeWiFiRest /\ factors.suspicious_ssid = 20)

C4_Witness ==
    /\ pc = "reported" /\ FreeWiFiCase
    /\ total_score = 50 /\ report[1].risk_level = "HIGH"

\* the history with only the entries that carry the given identifier
Restrict(hd, bssid) ==
    IF hd = None THEN None
    ELSE Some(SelectSeq(hd[1], LAMBDA e : e.bssid = bssid))

\* C5: entries of other identifiers are ignored: the result with the history is
\* the result with the history restricted to the observation's identifier.
C5_OtherEntriesIgnored ==
    Scored =>
        <<total_score, factors>> =
            calculate_risk_score(network, Restrict(historical_data, network.bssid), now_hour)

\* C6: an open profile has open_network = 30 and weak_encryption = 0 for
\* every capabilities string.
C6_OpenShortCircuits ==
    (Scored /\ network.is_open) =>
        (factors.open_network = 30 /\ factors.weak_encryption = 0)

C6_Witness ==
    /\ pc = "scored" /\ network.is_open /\ HasToken("WEP")
    /\ factors.open_network = 30 /\ factors.weak_encryption = 0

\* C7: a profile that is not open and whose capabilities hold "WEP" in any
\* letter case has weak_encryption = 25, whatever other tokens are present.
C7_WepIsTwentyFive ==
    (Scored /\ ~network.is_open /\ HasToken("WEP")) => factors.weak_encryption = 25

C7_Witness ==
    /\ pc = "scored" /\ ~network.is_open
    /\ HasToken("WEP") /\ HasToken("WPA3") /\ ~str_in("WEP", network.capabilities)
    /\ factors.weak_encryption = 25

\* positions of the history entries carrying the observation's identifier
Matching ==
    IF historical_data = None THEN {}
    ELSE {i \in 1..Len(historical_data[1]) : historical_data[1][i].bssid = network.bssid}

\* C8: with fewer than 3 history entries carrying the observation's identifier
\* (no history and an empty one included), signal_fluctuation is 0.
C8_FewMatchesNoFluctuation ==
    (Scored /\ Cardinality(Matching) < 3) => factors.signal_fluctuation = 0

C8_Witness ==
    /\ pc = "scored" /\ HistoryGiven
    /\ Len(historical_data[1]) = 3 /\ Matching = {}
    /\ {historical_data[1][i].level : i \in 1..3} = {-90, -60, -30}
    /\ factors.signal_fluctuation = 0

\* the band of a score, by its interval
Band(s) ==
    CASE s >= 70 -> "CRITICAL"
      [] s \in 50..69 -> "HIGH"
      [] s \in 30..49 -> "MEDIUM"
      [] s \in 10..29 -> "LOW"
      [] s <= 9 -> "MINIMAL"

\* C9: get_risk_level gives each score the level of its band (>= 70 CRITICAL,
\* 50..69 HIGH, 30..49 MEDIUM, 10..29 LOW, <= 9 MINIMAL), and of two scores
\* the higher never gets the lower level.
C9_LevelBandsMonotonic ==
    pc = "classified" =>
        /\ \A i \in 1..2 : probe_level[1][i] = Band(probe[i])
        /\ probe[1] <= probe[2] =>
               LevelRank(probe_level[1][1]) <= LevelRank(probe_level[1][2])

C9_Witness ==
    /\ pc = "classified" /\ probe = <<69, 70>>
    /\ probe_level[1] = <<"HIGH", "CRITICAL">>

\* the nine factors considered, in canonical order, each with its advisory
Advisories ==
    << <<"open_network", "Avoid connecting to open networks">>,
       <<"hidden_ssid", "Be cautious of hidden networks">>,
       <<"weak_encryption", "Network uses weak encryption">>,
       <<"suspicious_ssid", "SSID appears suspicious">>,
       <<"signal_fluctuation", "Signal strength is unstable">>,
       <<"proximity_risk", "Network is very close or very far">>,
       <<"vendor_risk", "Vendor has known security issues">>,
       <<"beacon_anomaly", "Network uses unusual frequencies">>,
       <<"temporal_risk", "Network active during unusual hours">> >>

\* position in the canonical order of the factor an advisory belongs to
AdvisoryIndex(text) == CHOOSE k \in 1..Len(Advisories) : Advisories[k][2] = text

\* C10: the recommendations hold exactly one entry per non-zero factor among
\* the nine (channel_conflict has none), in the canonical factor order.
C10_OnePerNonZeroFactorInOrder ==
    pc = "reported" =>
        LET recs == report[1].recommendations
            f == report[1].factors
            nonzero == {k \in 1..Len(Advisories) : f[Advisories[k][1]] # 0}
        IN /\ Len(recs) = Cardinality(nonzero)
           /\ \A i \in 1..Len(recs) : \E k \in nonzero : recs[i] = Advisories[k][2]
           /\ \A k \in nonzero : \E i \in 1..Len(recs) : recs[i] = Advisories[k][2]
           /\ \A i, j \in 1..Len(recs) :
                  i < j => AdvisoryIndex(recs[i]) < AdvisoryIndex(recs[j])

C10_Witness ==
    /\ pc = "reported"
    /\ Len(report[1].recommendations) = 7
    /\ report[1].factors.weak_encryption = 0
    /\ report[1].factors.temporal_risk = 5

\* the arguments of every call, as the caller still sees them
CallArguments ==
    <<[c \in DOMAIN calls |-> <<calls[c].network, calls[c].historical_data>>],
      shared_history>>

\* every call that has returned has the result of the same call made alone
ReturnedAsAlone ==
    \A c \in DOMAIN calls :
        calls[c].pc = "returned" =>
            calls[c].result =
                Some(calculate_risk_score(calls[c].network,
                                          deref(calls[c].historical_data), now_hour))

\* C11: under every interleaving of the callers' statements each call returns
\* what it returns when run alone on the same observation, history and hour,
\* and no step changes the engine's tables, an observation or the history.
C11_CallsDoNotInterfere ==
    /\ [](ReturnedAsAlone /\ engine = RiskEngine)
    /\ [][CallArguments' = CallArguments]_vars

C11_Witness ==
    /\ NumCallers >= 2
    /\ calls[1].pc = "returned" /\ calls[2].pc = "l98"
    /\ calls[1].network.bssid # calls[2].network.bssid
    /\ calls[1].result[1][2].signal_fluctuation = 15
    /\ calls[2].factors.signal_fluctuation = 8

\* the number of patterns that match a network name, for each name handed over
MatchCount ==
    [name \in SSIDs |->
        Cardinality({i \in 1..Len(suspicious_patterns) :
                        \E k \in 1..Len(suspicious_patterns[i]) :
                            str_in(suspicious_patterns[i][k], lower(name))})]

\* C12: every sub-score of a returned breakdown is an integer within its
\* stated bound; suspicious_ssid is 10 per matching pattern, capped at 30.
C12_SubScoresBounded ==
    Scored =>
        /\ factors.open_network \in {0, 30}
        /\ factors.hidden_ssid \in {0, 20}
        /\ factors.weak_encryption \in 0..25
        /\ factors.suspicious_ssid \in 0..30
        /\ factors.suspicious_ssid =
               (IF 10 * MatchCount[network.ssid] > 30 THEN 30
                ELSE 10 * MatchCount[network.ssid])
        /\ factors.signal_fluctuation \in {0, 8, 15}
        /\ factors.proximity_risk \in 0..15
        /\ factors.vendor_risk \in {0, 5}
        /\ factors.beacon_anomaly \in 0..25
        /\ factors.channel_conflict = 0
        /\ factors.temporal_risk \in {0, 5}

C12_Witness ==
    /\ pc = "scored"
    /\ MatchCount[network.ssid] = 4 /\ factors.suspicious_ssid = 30
    /\ factors.weak_encryption = 25 /\ factors.beacon_anomaly = 25
    /\ factors.proximity_risk = 10 /\ factors.vendor_risk = 5
    /\ factors.temporal_risk = 5

\* the signal level of history entry i
LevelAt(i) == historical_data[1][i].level

\* sum of LevelAt(i)^p over the positions in I, for p = 1 or 2
RECURSIVE PowerSum(_, _)
PowerSum(I, p) ==
    IF I = {} THEN 0
    ELSE LET i == CHOOSE j \in I : TRUE IN
         (IF p = 2 THEN LevelAt(i) * LevelAt(i) ELSE LevelAt(i)) + PowerSum(I \ {i}, p)

\* the population variance of the matching entries' levels exceeds v:
\* variance = (sum of squares)/n - (sum/n)^2, so n^2 * variance = n*Q - S^2
MatchingVarianceAbove(v) ==
    LET n == Cardinality(Matching) IN
    n * PowerSum(Matching, 2) - PowerSum(Matching, 1) * PowerSum(Matching, 1) > v * n * n

\* C13: with at least 3 history entries of the observation's identifier,
\* signal_fluctuation is 15 when the population standard deviation of exactly
\* those entries' levels is above 15 (variance above 225), 8 when it is above
\* 10 (variance above 100) and at most 15, and 0 otherwise.
C13_FluctuationFromMatchingDeviation ==
    (Scored /\ Cardinality(Matching) >= 3) =>
        factors.signal_fluctuation =
            (IF MatchingVarianceAbove(225) THEN 15
             ELSE IF MatchingVarianceAbove(100) THEN 8
             ELSE 0)

\* three matching entries at -60, -60, -30 (deviation 14.1) beside an entry of
\* another access point at -90; all four together would deviate by 21.2
C13_Witness ==
    /\ pc = "scored" /\ HistoryGiven
    /\ Len(historical_data[1]) = 4 /\ Cardinality(Matching) = 3
    /\ PowerSum(Matching, 1) = -150 /\ PowerSum(Matching, 2) = 8100
    /\ \E i \in 1..4 : i \notin Matching /\ LevelAt(i) = -90
    /\ network.level # -60 /\ network.level # -30
    /\ factors.signal_fluctuation = 8

\* C14: two scores get the same color exactly when they get the same level
\* (both functions cut at 70, 50, 30 and 10), and a report carries the level
\* and the color of its own risk_score.
C14_ColorFollowsLevel ==
    /\ pc \in {"classified", "reported"} =>
           /\ (probe_color[1][1] = probe_color[1][2])
                  <=> (probe_level[1][1] = probe_level[1][2])
           /\ \A i \in 1..2 :
                  \A t \in {70, 50, 30, 10} :
                      (probe[i] >= t) =>
                          /\ probe_color[1][i] # get_risk_color(t - 1)
                          /\ probe_level[1][i] # get_risk_level(t - 1)
    /\ (pc = "reported" /\ probe_level # None) =>
           /\ report[1].risk_score = probe[1]
           /\ report[1].risk_level = probe_level[1][1]
           /\ report[1].risk_color = probe_color[1][1]

C14_Witness ==
    /\ pc = "reported" /\ probe = <<50, 49>>
    /\ report[1].risk_score = 50
    /\ report[1].risk_level = "HIGH" /\ report[1].risk_color = "#f59e0b"
    /\ probe_level[1][2] = "MEDIUM" /\ probe_color[1][2] = "#eab308"

====
